---- MODULE Spec2Model ----
(***************************************************************************)
(* Model of scripts/test-pubsub.py: the Pub/Sub test harness of the prover *)
(* service.  It covers the fixture generator (create_test_message), the    *)
(* scoring formula the fixtures are documented to satisfy, the JSON        *)
(* serialisation of the payloads, and the command dispatch of main() with  *)
(* provisioning, publishing and the result listener with its callbacks.    *)
(***************************************************************************)
EXTENDS Integers, Sequences, FiniteSets, TLC

VARIABLES
    argv,          \* sys.argv; argv[1] is the script name, argv[2] is sys.argv[1]
    pc,            \* position of the main thread
    scenario,      \* scenario argument of publish_test_message
    request_id,    \* request id of the message being published
    timeout,       \* timeout argument of listen_for_results
    attempts,      \* provisioning calls made on the transport, in order
    message_data,  \* value returned by create_test_message
    publishCalls,  \* data handed to publisher.publish, in order
    message_id,    \* whether future.result() returned a message id
    pull,          \* streaming pull future: "none", "open", "cancelled"
    endedBy,       \* how streaming_pull_future.result() ended
    results,       \* the results list of listen_for_results
    deliveries,    \* messages delivered to callback, with each callback's position
    returned,      \* value returned by listen_for_results
    report,        \* final line printed by the command
    exitStatus,    \* process exit status once the command has ended
    fx,            \* inputs of the scoring formula
    out            \* outputs computed from fx

vars == <<argv, pc, scenario, request_id, timeout, attempts, message_data,
          publishCalls, message_id, pull, endedBy, results, deliveries,
          returned, report, exitStatus, fx, out>>

progVars == <<argv, pc, scenario, request_id, timeout, attempts, message_data,
              publishCalls, message_id, pull, endedBy, results, deliveries,
              returned, report, exitStatus>>

-----------------------------------------------------------------------------
(* Bounds of the model *)

\* Number of result messages the transport delivers during one listen.
MaxDeliveries == 2

\* Formula inputs are sampled within this distance of 0 and of SCALE.
Near == 1

-----------------------------------------------------------------------------
(* Program constants *)

\* Fixed-point scale of the docstring ("fixed-point scale of 10,000").
SCALE == 10000

\* Factor of the formula ("* 255 / SCALE").
MAXOUT == 255

\* timeout=None of listen_for_results ("forever").
NoTimeout == -1

-----------------------------------------------------------------------------
(* Python values.  A str is a sequence of string pieces (concatenation of  *)
(* pieces models f-string formatting); a dict is the sequence of its items *)
(* in insertion order.                                                     *)

PyStr(s) == [t |-> "str", s |-> s, n |-> 0, items |-> <<>>]
PyInt(n) == [t |-> "int", s |-> <<>>, n |-> n, items |-> <<>>]
PyLit(s) == [t |-> "lit", s |-> s, n |-> 0, items |-> <<>>]
PyDict(items) == [t |-> "dict", s |-> <<>>, n |-> 0, items |-> items]
Item(k, v) == [key |-> <<k>>, val |-> v]

\* d[k] = v on a dict's item sequence: replace in place, or append.
DictSet(items, k, v) ==
    IF \E i \in 1..Len(items) : items[i].key = k
    THEN [i \in 1..Len(items) |->
            IF items[i].key = k THEN [key |-> k, val |-> v] ELSE items[i]]
    ELSE Append(items, [key |-> k, val |-> v])

Has(d, k) == d.t = "dict" /\ \E i \in 1..Len(d.items) : d.items[i].key = <<k>>
Get(d, k) == d.items[CHOOSE i \in 1..Len(d.items) : d.items[i].key = <<k>>].val
Keys(d) == {d.items[i].key[1] : i \in 1..Len(d.items)}

-----------------------------------------------------------------------------
(* JSON text, as the sequence of its tokens (whitespace is not significant) *)

Tok(k, s, n) == [k |-> k, s |-> s, n |-> n]
LBRACE == Tok("lbrace", <<>>, 0)
RBRACE == Tok("rbrace", <<>>, 0)
COLON == Tok("colon", <<>>, 0)
COMMA == Tok("comma", <<>>, 0)
Word(w) == Tok("word", <<w>>, 0)

RECURSIVE Dumps(_)
RECURSIVE DumpItems(_, _)

\* json.dumps of a str, an int or a dict.
Dumps(v) ==
    CASE v.t = "str" -> <<Tok("str", v.s, 0)>>
      [] v.t = "int" -> <<Tok("num", <<>>, v.n)>>
      [] v.t = "lit" -> <<Tok("word", v.s, 0)>>
      [] OTHER -> <<LBRACE>> \o DumpItems(v.items, 1) \o <<RBRACE>>

DumpItems(items, i) ==
    IF i > Len(items) THEN <<>>
    ELSE (IF i > 1 THEN <<COMMA>> ELSE <<>>)
         \o <<Tok("str", items[i].key, 0), COLON>>
         \o Dumps(items[i].val)
         \o DumpItems(items, i + 1)

ParseFail(i) == [ok |-> FALSE, val |-> PyInt(0), next |-> i]
ParseOk(v, i) == [ok |-> TRUE, val |-> v, next |-> i]
JsonLiterals == {<<"true">>, <<"false">>, <<"null">>}

RECURSIVE ParseValue(_, _)
RECURSIVE ParseMembers(_, _, _)

\* One JSON value starting at token i.
ParseValue(toks, i) ==
    IF i > Len(toks) THEN ParseFail(i)
    ELSE LET tk == toks[i] IN
         CASE tk.k = "str" -> ParseOk(PyStr(tk.s), i + 1)
           [] tk.k = "num" -> ParseOk(PyInt(tk.n), i + 1)
           [] tk.k = "word" ->
                IF tk.s \in JsonLiterals THEN ParseOk(PyLit(tk.s), i + 1)
                ELSE ParseFail(i)
           [] tk.k = "lbrace" ->
                IF i + 1 <= Len(toks) /\ toks[i + 1].k = "rbrace"
                THEN ParseOk(PyDict(<<>>), i + 2)
                ELSE ParseMembers(toks, i + 1, <<>>)
           [] OTHER -> ParseFail(i)

\* The members of an object, after its opening brace or a comma.
ParseMembers(toks, i, acc) ==
    IF i + 1 > Len(toks) \/ toks[i].k # "str" \/ toks[i + 1].k # "colon"
    THEN ParseFail(i)
    ELSE LET r == ParseValue(toks, i + 2) IN
         IF ~r.ok \/ r.next > Len(toks) THEN ParseFail(i)
         ELSE LET items == DictSet(acc, toks[i].s, r.val) IN
              CASE toks[r.next].k = "comma" -> ParseMembers(toks, r.next + 1, items)
                [] toks[r.next].k = "rbrace" -> ParseOk(PyDict(items), r.next + 1)
                [] OTHER -> ParseFail(r.next)

\* json.loads: the whole text must be one value; ok = FALSE is JSONDecodeError.
Loads(toks) ==
    LET r == ParseValue(toks, 1) IN
    IF r.ok /\ r.next = Len(toks) + 1
    THEN [ok |-> TRUE, val |-> r.val]
    ELSE [ok |-> FALSE, val |-> PyInt(0)]

\* str.encode("utf-8") and bytes.decode("utf-8"); bytes that are not UTF-8
\* (utf8 = FALSE) make decode raise UnicodeDecodeError.
Encode(text) == [utf8 |-> TRUE, text |-> text]
Decode(data) == [ok |-> data.utf8, text |-> data.text]

-----------------------------------------------------------------------------
(* The scoring formula *)

\* Variant: the factor 256 (the number of byte values) for 255.
FormulaTimes256(w1, w2, w3, w4, rs, sms, bio) ==
    LET whole == w1 + ((w2 * rs) \div SCALE) + w3 * sms + w4 * bio
        frac == (w2 * rs) % SCALE
    IN (whole * 256 + ((frac * 256) \div SCALE)) \div SCALE

\* Variant: rounding to nearest for the final truncation.
FormulaRounded(w1, w2, w3, w4, rs, sms, bio) ==
    LET whole == w1 + ((w2 * rs) \div SCALE) + w3 * sms + w4 * bio
        frac == (w2 * rs) % SCALE
    IN (whole * MAXOUT + ((frac * MAXOUT) \div SCALE) + (SCALE \div 2)) \div SCALE

\* Docstring formula, with the recaptcha score a fraction rs/SCALE:
\*   floor((W1 + W2*rs/SCALE + W3*sms + W4*bio) * 255 / SCALE),
\* the sum exact and one truncation at the end.  The exact sum is
\* whole + frac/SCALE with whole = W1 + (W2*rs) div SCALE + W3*sms + W4*bio
\* and frac = (W2*rs) mod SCALE, so the floor is
\* (whole*255 + (frac*255) div SCALE) div SCALE; this keeps every
\* intermediate value below 2^31.
Formula(w1, w2, w3, w4, rs, sms, bio) ==
    LET whole == w1 + ((w2 * rs) \div SCALE) + w3 * sms + w4 * bio
        frac == (w2 * rs) % SCALE
    IN (whole * MAXOUT + ((frac * MAXOUT) \div SCALE)) \div SCALE

\* Integer procedure: the weighted sum in the 10,000-scale domain with a
\* truncating intermediate division, then * 255, then div 10000.
IntegerProcedure(w1, w2, w3, w4, rs, sms, bio) ==
    ((w1 + ((w2 * rs) \div SCALE) + w3 * sms + w4 * bio) * MAXOUT) \div SCALE

-----------------------------------------------------------------------------
(* create_test_message *)

Scenarios == {"normal", "boundary", "invalid_json", "missing_fields"}

PublicInputs(expected) ==
    PyDict(<<Item("w1", PyInt(1500)), Item("w2", PyInt(2000)),
             Item("w3", PyInt(2500)), Item("w4", PyInt(4000)),
             Item("expected_output", PyInt(expected))>>)

NormalMessage(rid) ==
    PyDict(<<Item("request_id", PyStr(rid)),
             Item("verification_results",
                  PyDict(<<Item("recaptcha_score", PyInt(7500)),
                           Item("sms_verified", PyInt(1)),
                           Item("bio_verified", PyInt(1))>>)),
             Item("public_inputs", PublicInputs(204))>>)

BoundaryMessage(rid) ==
    PyDict(<<Item("request_id", PyStr(rid)),
             Item("verification_results",
                  PyDict(<<Item("recaptcha_score", PyInt(10000)),
                           Item("sms_verified", PyInt(1)),
                           Item("bio_verified", PyInt(1))>>)),
             Item("public_inputs", PublicInputs(255))>>)

\* Variant: the missing_fields message with bio_verified left in.
MissingFieldsComplete(rid) ==
    PyDict(<<Item("request_id", PyStr(rid)),
             Item("verification_results",
                  PyDict(<<Item("recaptcha_score", PyInt(7500)),
                           Item("sms_verified", PyInt(1)),
                           Item("bio_verified", PyInt(1))>>)),
             Item("public_inputs", PublicInputs(204))>>)

MissingFieldsMessage(rid) ==
    PyDict(<<Item("request_id", PyStr(rid)),
             Item("verification_results",
                  PyDict(<<Item("recaptcha_score", PyInt(7500)),
                           Item("sms_verified", PyInt(1))>>)),
             Item("public_inputs", PublicInputs(204))>>)

\* The literal "{ invalid json }".
InvalidJsonText == <<LBRACE, Word("invalid"), Word("json"), RBRACE>>

Returned(text) == [raised |-> FALSE, text |-> text]
Raised == [raised |-> TRUE, text |-> <<>>]

\* Variant: an unrecognised scenario falls back to the normal message.
CreateDefaultsToNormal(rid, scen) ==
    CASE scen = "boundary" -> Returned(Dumps(BoundaryMessage(rid)))
      [] scen = "invalid_json" -> Returned(InvalidJsonText)
      [] scen = "missing_fields" -> Returned(Dumps(MissingFieldsMessage(rid)))
      [] OTHER -> Returned(Dumps(NormalMessage(rid)))

\* Variant: the invalid text goes through json.dumps like the other
\* scenarios, which makes it a JSON string.
CreateDumpsInvalidText(rid, scen) ==
    CASE scen = "normal" -> Returned(Dumps(NormalMessage(rid)))
      [] scen = "boundary" -> Returned(Dumps(BoundaryMessage(rid)))
      [] scen = "invalid_json" -> Returned(Dumps(PyStr(<<"{ invalid json }">>)))
      [] scen = "missing_fields" -> Returned(Dumps(MissingFieldsMessage(rid)))
      [] OTHER -> Raised

create_test_message(rid, scen) ==
    CASE scen = "normal" -> Returned(Dumps(NormalMessage(rid)))
      [] scen = "boundary" -> Returned(Dumps(BoundaryMessage(rid)))
      [] scen = "invalid_json" -> Returned(InvalidJsonText)
      [] scen = "missing_fields" -> Returned(Dumps(MissingFieldsMessage(rid)))
      [] OTHER -> Raised

-----------------------------------------------------------------------------
(* Inputs of the command line, the clock and the transport *)

Script == "test-pubsub.py"
UnknownScenarios == {"timeout", "Normal"}
TimeoutArgs == {"forever", "5", "abc"}
Clock == {"1700000000", "1700000001"}

ArgvChoices ==
    {<<Script>>, <<Script, "setup">>, <<Script, "publish">>, <<Script, "listen">>,
     <<Script, "e2e">>, <<Script, "deploy">>}
    \cup {<<Script, "publish", s>> : s \in Scenarios \cup UnknownScenarios}
    \cup {<<Script, "listen", t>> : t \in TimeoutArgs}

\* int(timeout_arg): raised = TRUE is ValueError.
IntOf(s) ==
    CASE s = "30" -> [raised |-> FALSE, n |-> 30]
      [] s = "5" -> [raised |-> FALSE, n |-> 5]
      [] OTHER -> [raised |-> TRUE, n |-> 0]

\* Bytes the result subscription can deliver: a JSON object, the text
\* "{ invalid json }", and bytes that are not UTF-8.
ResultObject ==
    PyDict(<<Item("request_id", PyStr(<<"e2e-test-", "1700000000">>)),
             Item("output", PyInt(242))>>)
ResultData ==
    {Encode(Dumps(ResultObject)), Encode(InvalidJsonText),
     [utf8 |-> FALSE, text |-> <<>>]}

ProvisioningSteps ==
    <<"create_prover_topic", "create_result_topic",
      "create_prover_subscription", "create_result_subscription">>

NotCalled == [called |-> FALSE, raised |-> FALSE, text |-> <<>>]
NotReturned == [set |-> FALSE, value |-> <<>>]
ShippedInputs ==
    [w1 |-> 1500, w2 |-> 2000, w3 |-> 2500, w4 |-> 4000,
     recaptcha_score |-> 7500, sms_verified |-> 1, bio_verified |-> 1]
NotComputed == [formula |-> FALSE, score |-> 0, integer |-> FALSE, iscore |-> 0]

command == argv[2]

-----------------------------------------------------------------------------
(* main *)

InitProgram(args) ==
    /\ argv = args
    /\ pc = "main"
    /\ scenario = ""
    /\ request_id = <<>>
    /\ timeout = NoTimeout
    /\ attempts = <<>>
    /\ message_data = NotCalled
    /\ publishCalls = <<>>
    /\ message_id = FALSE
    /\ pull = "none"
    /\ endedBy = "none"
    /\ results = <<>>
    /\ deliveries = <<>>
    /\ returned = NotReturned
    /\ report = "none"
    /\ exitStatus = -1

Init ==
    /\ \E args \in ArgvChoices : InitProgram(args)
    /\ fx = ShippedInputs
    /\ out = NotComputed

\* sys.exit(status), or an uncaught exception (status 1).
Exit(status) ==
    /\ pc' = "exit"
    /\ exitStatus' = status

MainUsage ==
    /\ pc = "main"
    /\ Len(argv) < 2
    /\ Exit(1)
    /\ UNCHANGED <<argv, scenario, request_id, timeout, attempts, message_data,
                   publishCalls, message_id, pull, endedBy, results, deliveries,
                   returned, report, fx, out>>

MainSetup ==
    /\ pc = "main"
    /\ Len(argv) >= 2
    /\ command = "setup"
    /\ pc' = "create_prover_topic"
    /\ UNCHANGED <<argv, scenario, request_id, timeout, attempts, message_data,
                   publishCalls, message_id, pull, endedBy, results, deliveries,
                   returned, report, exitStatus, fx, out>>

MainPublish ==
    /\ pc = "main"
    /\ Len(argv) >= 2
    /\ command = "publish"
    /\ scenario' = IF Len(argv) > 2 THEN argv[3] ELSE "normal"
    /\ pc' = "publish_test_message"
    /\ UNCHANGED <<argv, request_id, timeout, attempts, message_data,
                   publishCalls, message_id, pull, endedBy, results, deliveries,
                   returned, report, exitStatus, fx, out>>

MainListen ==
    /\ pc = "main"
    /\ Len(argv) >= 2
    /\ command = "listen"
    /\ LET timeout_arg == IF Len(argv) > 2 THEN argv[3] ELSE "30" IN
       IF timeout_arg = "forever"
       THEN /\ timeout' = NoTimeout
            /\ pc' = "listen_for_results"
            /\ UNCHANGED exitStatus
       ELSE IF IntOf(timeout_arg).raised
       THEN /\ Exit(1)
            /\ UNCHANGED timeout
       ELSE /\ timeout' = IntOf(timeout_arg).n
            /\ pc' = "listen_for_results"
            /\ UNCHANGED exitStatus
    /\ UNCHANGED <<argv, scenario, request_id, attempts, message_data,
                   publishCalls, message_id, pull, endedBy, results, deliveries,
                   returned, report, fx, out>>

MainE2E ==
    /\ pc = "main"
    /\ Len(argv) >= 2
    /\ command = "e2e"
    /\ pc' = "create_prover_topic"
    /\ UNCHANGED <<argv, scenario, request_id, timeout, attempts, message_data,
                   publishCalls, message_id, pull, endedBy, results, deliveries,
                   returned, report, exitStatus, fx, out>>

MainUnknown ==
    /\ pc = "main"
    /\ Len(argv) >= 2
    /\ command \notin {"setup", "publish", "listen", "e2e"}
    /\ Exit(1)
    /\ UNCHANGED <<argv, scenario, request_id, timeout, attempts, message_data,
                   publishCalls, message_id, pull, endedBy, results, deliveries,
                   returned, report, fx, out>>

-----------------------------------------------------------------------------
(* create_topics_and_subscriptions *)

\* Variant: the exception of a provisioning call is not caught.
ProvisionAborting(k, next) ==
    /\ pc = ProvisioningSteps[k]
    /\ \E created \in BOOLEAN :
         /\ attempts' = Append(attempts, [step |-> ProvisioningSteps[k],
                                          created |-> created])
         /\ IF created
            THEN pc' = next /\ UNCHANGED exitStatus
            ELSE Exit(1)
    /\ UNCHANGED <<argv, scenario, request_id, timeout, message_data,
                   publishCalls, message_id, pull, endedBy, results, deliveries,
                   returned, report, fx, out>>

\* One try/except block: the call is made once; created = FALSE is the
\* exception, which the handler prints.  Either way the next statement runs.
Provision(k, next) ==
    /\ pc = ProvisioningSteps[k]
    /\ \E created \in BOOLEAN :
         attempts' = Append(attempts, [step |-> ProvisioningSteps[k],
                                       created |-> created])
    /\ pc' = next
    /\ UNCHANGED <<argv, scenario, request_id, timeout, message_data,
                   publishCalls, message_id, pull, endedBy, results, deliveries,
                   returned, report, exitStatus, fx, out>>

CreateProverTopic == Provision(1, "create_result_topic")
CreateResultTopic == Provision(2, "create_prover_subscription")
CreateProverSubscription == Provision(3, "create_result_subscription")
CreateResultSubscription == Provision(4, "provisioned")

\* main, setup: "Setup complete!".
SetupComplete ==
    /\ pc = "provisioned"
    /\ command = "setup"
    /\ Exit(0)
    /\ UNCHANGED <<argv, scenario, request_id, timeout, attempts, message_data,
                   publishCalls, message_id, pull, endedBy, results, deliveries,
                   returned, report, fx, out>>

\* main, e2e: publish_test_message("normal", f"e2e-test-{int(time.time())}").
E2EPublish ==
    /\ pc = "provisioned"
    /\ command = "e2e"
    /\ scenario' = "normal"
    /\ \E t \in Clock : request_id' = <<"e2e-test-", t>>
    /\ pc' = "create_test_message"
    /\ UNCHANGED <<argv, timeout, attempts, message_data,
                   publishCalls, message_id, pull, endedBy, results, deliveries,
                   returned, report, exitStatus, fx, out>>

-----------------------------------------------------------------------------
(* publish_test_message *)

\* request_id is None: f"test-{scenario}-{int(time.time())}".
PublishRequestId ==
    /\ pc = "publish_test_message"
    /\ \E t \in Clock : request_id' = <<"test-", scenario, "-", t>>
    /\ pc' = "create_test_message"
    /\ UNCHANGED <<argv, scenario, timeout, attempts, message_data,
                   publishCalls, message_id, pull, endedBy, results, deliveries,
                   returned, report, exitStatus, fx, out>>

\* message_data = create_test_message(request_id, scenario); the ValueError
\* is not caught anywhere, so it ends the process.
CreateMessage ==
    /\ pc = "create_test_message"
    /\ LET r == create_test_message(request_id, scenario) IN
       /\ message_data' = [called |-> TRUE, raised |-> r.raised, text |-> r.text]
       /\ IF r.raised
          THEN Exit(1)
          ELSE pc' = "publish" /\ UNCHANGED exitStatus
    /\ UNCHANGED <<argv, scenario, request_id, timeout, attempts,
                   publishCalls, message_id, pull, endedBy, results, deliveries,
                   returned, report, fx, out>>

\* publisher.publish(topic_path, data) and future.result(); a publish
\* failure raises out of future.result() and ends the process.
Publish ==
    /\ pc = "publish"
    /\ publishCalls' = Append(publishCalls, Encode(message_data.text))
    /\ \E ok \in BOOLEAN :
         IF ok
         THEN /\ message_id' = TRUE
              /\ pc' = "published"
              /\ UNCHANGED exitStatus
         ELSE /\ Exit(1)
              /\ UNCHANGED message_id
    /\ UNCHANGED <<argv, scenario, request_id, timeout, attempts, message_data,
                   pull, endedBy, results, deliveries, returned, report, fx, out>>

\* main, publish: "Message published!".
PublishComplete ==
    /\ pc = "published"
    /\ command = "publish"
    /\ Exit(0)
    /\ UNCHANGED <<argv, scenario, request_id, timeout, attempts, message_data,
                   publishCalls, message_id, pull, endedBy, results, deliveries,
                   returned, report, fx, out>>

\* Variant: e2e listens with the default timeout of 30 seconds.
E2EListenWithTimeout ==
    /\ pc = "published"
    /\ command = "e2e"
    /\ timeout' = 30
    /\ pc' = "listen_for_results"
    /\ UNCHANGED <<argv, scenario, request_id, attempts, message_data,
                   publishCalls, message_id, pull, endedBy, results, deliveries,
                   returned, report, exitStatus, fx, out>>

\* main, e2e: results = listen_for_results(timeout=None).
E2EListen ==
    /\ pc = "published"
    /\ command = "e2e"
    /\ timeout' = NoTimeout
    /\ pc' = "listen_for_results"
    /\ UNCHANGED <<argv, scenario, request_id, attempts, message_data,
                   publishCalls, message_id, pull, endedBy, results, deliveries,
                   returned, report, exitStatus, fx, out>>

-----------------------------------------------------------------------------
(* listen_for_results *)

\* results = [] and subscriber.subscribe(subscription_path, callback).
Subscribe ==
    /\ pc = "listen_for_results"
    /\ results' = <<>>
    /\ pull' = "open"
    /\ pc' = "result"
    /\ UNCHANGED <<argv, scenario, request_id, timeout, attempts, message_data,
                   publishCalls, message_id, endedBy, deliveries,
                   returned, report, exitStatus, fx, out>>

\* The transport hands a message to callback on a worker thread.
Deliver ==
    /\ pull = "open"
    /\ Len(deliveries) < MaxDeliveries
    /\ \E data \in ResultData :
         deliveries' = Append(deliveries, [data |-> data, at |-> "try", acks |-> 0])
    /\ UNCHANGED <<argv, pc, scenario, request_id, timeout, attempts, message_data,
                   publishCalls, message_id, pull, endedBy, results,
                   returned, report, exitStatus, fx, out>>

\* What json.loads(message.data.decode("utf-8")) gives: ok = FALSE when
\* either call raises.
Parsed(data) ==
    IF Decode(data).ok THEN Loads(Decode(data).text)
    ELSE [ok |-> FALSE, val |-> PyInt(0)]

\* callback, the try block: parse, then results.append(data); an exception
\* skips the append and is printed.
CallbackTry(i) ==
    /\ pc # "exit"
    /\ deliveries[i].at = "try"
    /\ results' = IF Parsed(deliveries[i].data).ok
                  THEN Append(results, Parsed(deliveries[i].data).val)
                  ELSE results
    /\ deliveries' = [deliveries EXCEPT ![i].at = "ack"]
    /\ UNCHANGED <<argv, pc, scenario, request_id, timeout, attempts, message_data,
                   publishCalls, message_id, pull, endedBy,
                   returned, report, exitStatus, fx, out>>

\* Variant: message.ack() inside the try block, after the append.
CallbackAckParsedOnly(i) ==
    /\ pc # "exit"
    /\ deliveries[i].at = "ack"
    /\ deliveries' = [deliveries EXCEPT
                        ![i].at = "done",
                        ![i].acks = IF Parsed(deliveries[i].data).ok THEN @ + 1 ELSE @]
    /\ UNCHANGED <<argv, pc, scenario, request_id, timeout, attempts, message_data,
                   publishCalls, message_id, pull, endedBy, results,
                   returned, report, exitStatus, fx, out>>

\* callback, after the try block: message.ack().
CallbackAck(i) ==
    /\ pc # "exit"
    /\ deliveries[i].at = "ack"
    /\ deliveries' = [deliveries EXCEPT ![i].at = "done", ![i].acks = @ + 1]
    /\ UNCHANGED <<argv, pc, scenario, request_id, timeout, attempts, message_data,
                   publishCalls, message_id, pull, endedBy, results,
                   returned, report, exitStatus, fx, out>>

Callback == \E i \in 1..Len(deliveries) : CallbackTry(i) \/ CallbackAck(i)

\* Variant: only the KeyboardInterrupt handler cancels the streaming pull.
HandlerCancelOnInterruptOnly(how) ==
    /\ pc = "result"
    /\ endedBy' = how
    /\ pull' = IF how = "interrupt" THEN "cancelled" ELSE pull
    /\ pc' = "return"
    /\ UNCHANGED <<argv, scenario, request_id, timeout, attempts, message_data,
                   publishCalls, message_id, results, deliveries,
                   returned, report, exitStatus, fx, out>>

\* An except block of listen_for_results: print, then
\* streaming_pull_future.cancel().
Handler(how) ==
    /\ pc = "result"
    /\ endedBy' = how
    /\ pull' = "cancelled"
    /\ pc' = "return"
    /\ UNCHANGED <<argv, scenario, request_id, timeout, attempts, message_data,
                   publishCalls, message_id, results, deliveries,
                   returned, report, exitStatus, fx, out>>

\* streaming_pull_future.result(timeout=timeout) raises TimeoutError.
ListenTimeout ==
    /\ timeout # NoTimeout
    /\ Handler("timeout")

\* streaming_pull_future.result raises a transport error.
ListenError == Handler("error")

\* KeyboardInterrupt while waiting in streaming_pull_future.result.
ListenInterrupt == Handler("interrupt")

\* return results.
ListenReturn ==
    /\ pc = "return"
    /\ returned' = [set |-> TRUE, value |-> results]
    /\ pc' = "report"
    /\ UNCHANGED <<argv, scenario, request_id, timeout, attempts, message_data,
                   publishCalls, message_id, pull, endedBy, results, deliveries,
                   report, exitStatus, fx, out>>

\* main, listen: "Received {len(results)} result(s)".
ListenReport ==
    /\ pc = "report"
    /\ command = "listen"
    /\ report' = "count"
    /\ Exit(0)
    /\ UNCHANGED <<argv, scenario, request_id, timeout, attempts, message_data,
                   publishCalls, message_id, pull, endedBy, results, deliveries,
                   returned, fx, out>>

\* main, e2e: "E2E test complete!" if results, else "No results received".
E2EReport ==
    /\ pc = "report"
    /\ command = "e2e"
    /\ report' = IF results # <<>> THEN "received" ELSE "no results"
    /\ Exit(0)
    /\ UNCHANGED <<argv, scenario, request_id, timeout, attempts, message_data,
                   publishCalls, message_id, pull, endedBy, results, deliveries,
                   returned, fx, out>>

-----------------------------------------------------------------------------
(* The program *)

Next ==
    \/ MainUsage
    \/ MainSetup
    \/ MainPublish
    \/ MainListen
    \/ MainE2E
    \/ MainUnknown
    \/ CreateProverTopic
    \/ CreateResultTopic
    \/ CreateProverSubscription
    \/ CreateResultSubscription
    \/ SetupComplete
    \/ E2EPublish
    \/ PublishRequestId
    \/ CreateMessage
    \/ Publish
    \/ PublishComplete
    \/ E2EListen
    \/ Subscribe
    \/ Deliver
    \/ Callback
    \/ ListenTimeout
    \/ ListenError
    \/ ListenInterrupt
    \/ ListenReturn
    \/ ListenReport
    \/ E2EReport

Spec == Init /\ [][Next]_vars

\* The main thread is never suspended for ever: a finite timeout expires and
\* the function then returns.
SpecFair == Spec /\ WF_vars(ListenTimeout) /\ WF_vars(ListenReturn)

-----------------------------------------------------------------------------
(* The formula on sampled inputs *)

Samples(extra) == (0..Near) \cup ((SCALE - Near)..SCALE) \cup extra
WeightSamples == Samples({549, 5000})
ScoreSamples == Samples({197, 7500})
ShippedWeights == <<1500, 2000, 2500, 4000>>
WeightChoices ==
    {ShippedWeights} \cup (WeightSamples \X WeightSamples \X WeightSamples \X WeightSamples)

InitFormula ==
    /\ InitProgram(<<Script>>)
    /\ \E w \in WeightChoices, rs \in ScoreSamples, sms \in {0, 1}, bio \in {0, 1} :
         fx = [w1 |-> w[1], w2 |-> w[2], w3 |-> w[3], w4 |-> w[4],
               recaptcha_score |-> rs, sms_verified |-> sms, bio_verified |-> bio]
    /\ out = NotComputed

ApplyFormula ==
    /\ ~out.formula
    /\ out' = [out EXCEPT !.formula = TRUE,
                          !.score = Formula(fx.w1, fx.w2, fx.w3, fx.w4,
                                            fx.recaptcha_score, fx.sms_verified,
                                            fx.bio_verified)]
    /\ UNCHANGED <<progVars, fx>>

ApplyIntegerProcedure ==
    /\ ~out.integer
    /\ out' = [out EXCEPT !.integer = TRUE,
                          !.iscore = IntegerProcedure(fx.w1, fx.w2, fx.w3, fx.w4,
                                                      fx.recaptcha_score,
                                                      fx.sms_verified,
                                                      fx.bio_verified)]
    /\ UNCHANGED <<progVars, fx>>

NextFormula == ApplyFormula \/ ApplyIntegerProcedure

SpecFormula == InitFormula /\ [][NextFormula]_vars

-----------------------------------------------------------------------------
(* Properties *)

IsPrefix(a, b) == Len(a) <= Len(b) /\ \A i \in 1..Len(a) : a[i] = b[i]
Count(seq, v) == Cardinality({i \in 1..Len(seq) : seq[i] = v})
IsE2E == Len(argv) >= 2 /\ command = "e2e"
RequestKeys == {"request_id", "verification_results", "public_inputs"}
VerificationKeys == {"recaptcha_score", "sms_verified", "bio_verified"}
PublicKeys == {"w1", "w2", "w3", "w4", "expected_output"}
IntField(d, k) == Get(d, k).n

\* The score the formula gives for the fields of a complete Request.
ScoreOfRequest(m) ==
    LET vr == Get(m, "verification_results")
        pi == Get(m, "public_inputs")
    IN Formula(IntField(pi, "w1"), IntField(pi, "w2"), IntField(pi, "w3"),
               IntField(pi, "w4"), IntField(vr, "recaptcha_score"),
               IntField(vr, "sms_verified"), IntField(vr, "bio_verified"))

\* C1: for the normal and the boundary scenario, the expected_output shipped
\* in the payload equals the formula applied to the payload's own fields,
\* being 204 for normal and 255 for boundary.
C1_ExpectedOutputIsFormula ==
    (message_data.called /\ scenario \in {"normal", "boundary"}) =>
        LET m == Loads(message_data.text).val
            shipped == IntField(Get(m, "public_inputs"), "expected_output")
        IN /\ shipped = ScoreOfRequest(m)
           /\ scenario = "normal" => shipped = 204
           /\ scenario = "boundary" => shipped = 255

InputsValid ==
    /\ {fx.w1, fx.w2, fx.w3, fx.w4, fx.recaptcha_score} \subseteq 0..SCALE
    /\ {fx.sms_verified, fx.bio_verified} \subseteq {0, 1}

\* C2: for valid inputs whose weights sum to at most 10000 the score lies in
\* 0..255, and under the shipped weights 255 is reached at recaptcha 10000,
\* sms 1, bio 1.
C2_ScoreInRange ==
    (out.formula /\ InputsValid /\ fx.w1 + fx.w2 + fx.w3 + fx.w4 <= SCALE) =>
        /\ out.score \in 0..MAXOUT
        /\ (/\ <<fx.w1, fx.w2, fx.w3, fx.w4>> = ShippedWeights
            /\ fx.recaptcha_score = SCALE
            /\ fx.sms_verified = 1
            /\ fx.bio_verified = 1) => out.score = MAXOUT

C2_Witness ==
    /\ out.formula
    /\ <<fx.w1, fx.w2, fx.w3, fx.w4>> = ShippedWeights
    /\ fx.recaptcha_score = SCALE
    /\ fx.sms_verified = 1
    /\ fx.bio_verified = 1
    /\ out.score = MAXOUT

\* C3: with a scenario name outside the four known ones, create_test_message
\* raises and returns no payload, and publish is never called on the
\* transport: the command ends in error.
C3_UnknownScenarioNothingPublished ==
    (scenario \notin Scenarios) =>
        /\ publishCalls = <<>>
        /\ ~message_id
        /\ message_data.called =>
             /\ message_data.raised
             /\ message_data.text = <<>>
             /\ pc = "exit"
             /\ exitStatus = 1

C3_Witness ==
    /\ scenario \in UnknownScenarios
    /\ message_data.called
    /\ pc = "exit"

\* C4: the missing_fields payload parses as a JSON object that carries the
\* request id, recaptcha_score 7500, sms_verified 1 and the five
\* public_inputs, and lacks bio_verified and nothing else.
C4_MissingFieldsLacksOnlyBio ==
    (message_data.called /\ scenario = "missing_fields") =>
        /\ ~message_data.raised
        /\ Loads(message_data.text).ok
        /\ LET m == Loads(message_data.text).val IN
           /\ m.t = "dict"
           /\ Keys(m) = RequestKeys
           /\ Get(m, "request_id") = PyStr(request_id)
           /\ Keys(Get(m, "verification_results")) = VerificationKeys \ {"bio_verified"}
           /\ Get(Get(m, "verification_results"), "recaptcha_score") = PyInt(7500)
           /\ Get(Get(m, "verification_results"), "sms_verified") = PyInt(1)
           /\ Keys(Get(m, "public_inputs")) = PublicKeys
           /\ Get(m, "public_inputs") =
                PyDict(<<Item("w1", PyInt(1500)), Item("w2", PyInt(2000)),
                         Item("w3", PyInt(2500)), Item("w4", PyInt(4000)),
                         Item("expected_output", PyInt(204))>>)

C4_Witness ==
    /\ message_data.called
    /\ scenario = "missing_fields"
    /\ publishCalls # <<>>

Published == pc = "published" \/ (pc = "exit" /\ exitStatus = 0)

\* C5: the invalid_json payload is returned, not raised; it is the same text
\* for every request id, it does not parse as JSON, it does not hold the
\* request id, and it is published exactly once.
C5_InvalidJsonPublishedOnce ==
    (message_data.called /\ scenario = "invalid_json") =>
        /\ ~message_data.raised
        /\ ~Loads(message_data.text).ok
        /\ \A t \in Clock, prefix \in {"test-", "e2e-test-"} :
             create_test_message(<<prefix, scenario, "-", t>>, scenario).text
               = message_data.text
        /\ \A i \in 1..Len(message_data.text) : message_data.text[i].s # request_id
        /\ Len(publishCalls) <= 1
        /\ Published => publishCalls = <<Encode(message_data.text)>>

C5_Witness ==
    /\ message_data.called
    /\ scenario = "invalid_json"
    /\ pc = "published"

\* C6: a listen with a finite timeout eventually returns; whenever it has
\* returned, by timeout, error or interrupt, the streaming pull has been
\* cancelled, the value returned is the results received up to then, and
\* the command has not ended in error.
C6_ListenReturnsCancelled ==
    /\ (pc = "result" /\ timeout # NoTimeout) ~> returned.set
    /\ [](returned.set =>
            /\ pull = "cancelled"
            /\ endedBy \in {"timeout", "error", "interrupt"}
            /\ IsPrefix(returned.value, results)
            /\ exitStatus \in {-1, 0})
    /\ [][pc = "return" /\ pc' # "return" => returned'.value = results]_vars

C6_Witness ==
    /\ returned.set
    /\ timeout # NoTimeout
    /\ endedBy = "timeout"
    /\ returned.value # <<>>

Provisioning == Len(argv) >= 2 /\ command \in {"setup", "e2e"} /\ pc # "main"

\* C7: the four provisioning steps are attempted once each, in order, a
\* failed step is followed by the next one, and the function completes.
C7_ProvisioningOnceInOrder ==
    /\ Len(attempts) <= Len(ProvisioningSteps)
    /\ \A i \in 1..Len(attempts) : attempts[i].step = ProvisioningSteps[i]
    /\ Provisioning =>
         IF Len(attempts) < Len(ProvisioningSteps)
         THEN pc = ProvisioningSteps[Len(attempts) + 1]
         ELSE pc \notin {ProvisioningSteps[k] : k \in 1..Len(ProvisioningSteps)}
    /\ (pc = "exit" /\ Len(argv) >= 2 /\ command = "setup") => exitStatus = 0

C7_Witness ==
    /\ pc = "provisioned"
    /\ Len(attempts) = 4
    /\ ~attempts[1].created
    /\ ~attempts[3].created
    /\ attempts[4].created

\* C8: every delivered message is acknowledged exactly once, when its
\* callback completes, parseable or not; results holds exactly the parsed
\* payloads of the callbacks that are past their try block.
C8_AckedOnceAppendedIffParsed ==
    /\ \A i \in 1..Len(deliveries) :
         deliveries[i].acks = IF deliveries[i].at = "done" THEN 1 ELSE 0
    /\ Len(results) =
         Cardinality({i \in 1..Len(deliveries) :
                        deliveries[i].at # "try" /\ Parsed(deliveries[i].data).ok})
    /\ \A d \in ResultData :
         Parsed(d).ok =>
           Count(results, Parsed(d).val) =
             Cardinality({i \in 1..Len(deliveries) :
                            deliveries[i].at # "try" /\ deliveries[i].data = d})

C8_Witness ==
    /\ Len(deliveries) >= 2
    /\ \E i, j \in 1..Len(deliveries) :
         /\ deliveries[i].at = "done"
         /\ ~Parsed(deliveries[i].data).ok
         /\ deliveries[i].acks = 1
         /\ deliveries[j].at = "done"
         /\ Parsed(deliveries[j].data).ok
    /\ Len(results) = 1

C10_ProceduresAgree ==
    (out.formula /\ out.integer /\ InputsValid) => out.score = out.iscore

\* C10 as amended: they return the same value whenever w2*recaptcha_score is
\* a multiple of 10000; otherwise the integer procedure returns the same
\* value or one less.
C10_AgreeUpToOne ==
    (out.formula /\ out.integer /\ InputsValid) =>
        /\ out.iscore <= out.score
        /\ out.score <= out.iscore + 1
        /\ (fx.w2 * fx.recaptcha_score) % SCALE = 0 => out.score = out.iscore

C10_Witness ==
    /\ out.formula
    /\ out.integer
    /\ fx.w2 * fx.recaptcha_score > 0
    /\ (fx.w2 * fx.recaptcha_score) % SCALE = 0
    /\ out.score = out.iscore
    /\ out.score > 0

====
